---- MODULE Spec2Model ----
(***************************************************************************)
(* Model of reporteventas (src/main.py): a Flask service that reads a wide *)
(* sales ledger from a spreadsheet, filters it by date-code and report     *)
(* kind, normalises the item slots of every row into sales lines and       *)
(* writes them from row 26 of a destination sheet.                         *)
(*                                                                         *)
(* Representation.  A Python str is a sequence of one-character strings,   *)
(* so that strip/lower/upper/replace/title are computed character by       *)
(* character.  A cell value is a record [t, s, n]: a str, a number, NaN or *)
(* None.  A DataFrame is [columns, rows]; a row of the frame read from the *)
(* sheet is [idx, cells]: idx is the pandas index label (kept by boolean   *)
(* filtering), cells maps column name to cell value.                       *)
(***************************************************************************)
EXTENDS Integers, Sequences, FiniteSets, TLC

VARIABLES
    sheet,      \* source worksheet as get_all_records() returns it
    loaded,     \* read_base(sheet): the sheet does not change in a behaviour
    dest,       \* destination worksheet: row number -> cells from column A
    req,        \* the request (or call arguments) being served
    resp,       \* the HTTP response of run_multi
    df_fechas,  \* [labels: index labels of the rows filtrar_por_fecha returned]
    out,        \* sales lines returned by normalize_items
    sg,         \* a safe_get call: row, keys, result
    hdr         \* a column header going through the column normaliser

vars == <<sheet, loaded, dest, req, resp, df_fechas, out, sg, hdr>>

\* value of a variable that a specification does not use
Idle == [t |-> "idle"]

-----------------------------------------------------------------------------
(* Bounds of the model *)

\* longest raw header explored by SpecHeader
MaxHeaderLen == 3

\* longest alias list passed to safe_get in SpecSafeGet
MaxKeys == 2

\* most slots of a row holding a quantity cell that is not blank, in SpecNormalize
MaxPopulated == 2

\* most records of a source sheet in Spec
MaxRows == 2

\* the date-codes of requests are 1..MaxDate, those of rows 0..MaxDate + 1
MaxDate == 2

\* most records of a source sheet in SpecFilter
MaxFilterRows == 1

-----------------------------------------------------------------------------
(* Python str operations, on sequences of characters *)

Whitespace == {" ", "\t", "\n"}

UpperChars == <<"A","B","C","D","E","F","G","H","I","J","K","L","M",
                "N","O","P","Q","R","S","T","U","V","W","X","Y","Z","Á","É">>
LowerChars == <<"a","b","c","d","e","f","g","h","i","j","k","l","m",
                "n","o","p","q","r","s","t","u","v","w","x","y","z","á","é">>

LowerChar(c) ==
    IF \E i \in 1..Len(UpperChars) : UpperChars[i] = c
    THEN LowerChars[CHOOSE i \in 1..Len(UpperChars) : UpperChars[i] = c]
    ELSE c

UpperChar(c) ==
    IF \E i \in 1..Len(LowerChars) : LowerChars[i] = c
    THEN UpperChars[CHOOSE i \in 1..Len(LowerChars) : LowerChars[i] = c]
    ELSE c

\* str.lower()
RECURSIVE Lower(_)
Lower(s) == IF s = <<>> THEN <<>> ELSE <<LowerChar(Head(s))>> \o Lower(Tail(s))

\* str.upper()
RECURSIVE Upper(_)
Upper(s) == IF s = <<>> THEN <<>> ELSE <<UpperChar(Head(s))>> \o Upper(Tail(s))

RECURSIVE LStrip(_)
LStrip(s) ==
    IF s # <<>> /\ Head(s) \in Whitespace THEN LStrip(Tail(s)) ELSE s

RECURSIVE RStrip(_)
RStrip(s) ==
    IF s # <<>> /\ s[Len(s)] \in Whitespace
    THEN RStrip(SubSeq(s, 1, Len(s) - 1))
    ELSE s

\* str.strip(): every leading and trailing whitespace character goes
Strip(s) == RStrip(LStrip(s))

\* str.replace(old, new) for a one-character old and any new: s when old
\* does not occur in it
RECURSIVE Replace(_, _, _)
Replace(s, old, new) ==
    IF \A i \in 1..Len(s) : s[i] # old THEN s
    ELSE (IF Head(s) = old THEN new ELSE <<Head(s)>>) \o Replace(Tail(s), old, new)

\* str.replace(r'\s+', ' ', regex=True): each run of whitespace becomes one space
RECURSIVE CollapseSpaces(_)
CollapseSpaces(s) ==
    IF s = <<>> THEN <<>>
    ELSE IF Head(s) \in Whitespace
         THEN <<" ">> \o CollapseSpaces(LStrip(s))
         ELSE <<Head(s)>> \o CollapseSpaces(Tail(s))

\* x in s, for str x and s
Contains(s, x) ==
    \E i \in 1..(Len(s) - Len(x) + 1) : SubSeq(s, i, i + Len(x) - 1) = x

\* str.capitalize(): first character upper, the rest lower
Capitalize(s) == IF s = <<>> THEN <<>> ELSE <<UpperChar(Head(s))>> \o Lower(Tail(s))

IsLetter(c) ==
    \/ \E i \in 1..Len(UpperChars) : UpperChars[i] = c
    \/ \E i \in 1..Len(LowerChars) : LowerChars[i] = c

\* str.title(): a letter after a non-letter is upper, any other letter
\* lower; prev is the character before s ("" at the start of the text)
RECURSIVE TitleFrom(_, _)
TitleFrom(prev, s) ==
    IF s = <<>> THEN <<>>
    ELSE <<IF IsLetter(prev) THEN LowerChar(Head(s)) ELSE UpperChar(Head(s))>>
         \o TitleFrom(Head(s), Tail(s))

Title(s) == TitleFrom("", s)

\* the sequences over S of length at most n
RECURSIVE SeqsUpTo(_, _)
SeqsUpTo(S, n) ==
    IF n = 0 THEN {<<>>}
    ELSE LET shorter == SeqsUpTo(S, n - 1)
         IN  shorter \cup {Append(q, x) : q \in shorter, x \in S}

-----------------------------------------------------------------------------
(* read_base: the column normaliser *)

\* the chain of str methods applied to every column name
NormalizeColumn(col) ==
    LET s1  == Lower(Strip(col))
        s2  == Replace(s1, " ", <<"_">>)
        s3  == Replace(s2, ".", <<>>)
        s4  == Replace(s3, "-", <<"_">>)
        s5  == Replace(s4, "#", <<"n", "u", "m">>)
        s6  == Replace(s5, "á", <<"a">>)
        s7  == Replace(s6, "é", <<"e">>)
        s8  == Replace(s7, "í", <<"i">>)
        s9  == Replace(s8, "ó", <<"o">>)
        s10 == Replace(s9, "ú", <<"u">>)
        s11 == Replace(s10, "(", <<>>)
        s12 == Replace(s11, ")", <<>>)
    IN  Replace(s12, "/", <<"_">>)

-----------------------------------------------------------------------------
(* Cell values *)

Str(s) == [t |-> "str", s |-> s, n |-> 0]
Num(n) == [t |-> "num", s |-> <<>>, n |-> n]
NaN    == [t |-> "nan", s |-> <<>>, n |-> 0]
None   == [t |-> "none", s |-> <<>>, n |-> 0]

\* pd.isna / pd.notna: None and NaN are missing, every str (also '') is not
IsNa(v)  == v.t \in {"nan", "none"}
NotNa(v) == ~IsNa(v)

DigitChars == <<"0","1","2","3","4","5","6","7","8","9">>

IsDigit(c) == \E i \in 1..10 : DigitChars[i] = c
DigitValue(c) == (CHOOSE i \in 1..10 : DigitChars[i] = c) - 1

RECURSIVE DigitsValue(_)
DigitsValue(s) ==
    IF s = <<>> THEN 0
    ELSE 10 * DigitsValue(SubSeq(s, 1, Len(s) - 1)) + DigitValue(s[Len(s)])

AllDigits(s) == s # <<>> /\ \A i \in 1..Len(s) : IsDigit(s[i])

\* the texts of this model that Python parses as an integer: an optional
\* sign and decimal digits (no float, exponent or padded text is modelled)
IsIntText(s) ==
    \/ AllDigits(s)
    \/ s # <<>> /\ Head(s) = "-" /\ AllDigits(Tail(s))

IntOfText(s) ==
    IF Head(s) = "-" THEN 0 - DigitsValue(Tail(s)) ELSE DigitsValue(s)

RECURSIVE NatToText(_)
NatToText(n) ==
    IF n < 10 THEN <<DigitChars[n + 1]>>
    ELSE NatToText(n \div 10) \o <<DigitChars[(n % 10) + 1]>>

\* str(n) for an int n
IntToText(n) == IF n < 0 THEN <<"-">> \o NatToText(0 - n) ELSE NatToText(n)

\* pd.to_numeric(v, errors="coerce"): a number stays, a numeric text is
\* parsed, anything else (None, '', other text) becomes NaN
ToNumeric(v) ==
    IF v.t = "num" THEN v
    ELSE IF v.t = "str" /\ IsIntText(v.s) THEN Num(IntOfText(v.s))
    ELSE NaN

\* str(v), as astype(str) and str() compute it
AsText(v) ==
    IF v.t = "str" THEN v.s
    ELSE IF v.t = "num" THEN IntToText(v.n)
    ELSE IF v.t = "nan" THEN <<"n", "a", "n">>
    ELSE <<"N", "o", "n", "e">>

-----------------------------------------------------------------------------
(* safe_get *)

\* the first key that is a column of the row and whose value is not NaN/None
RECURSIVE safe_get(_, _)
safe_get(row, keys) ==
    IF keys = <<>> THEN None
    ELSE IF Head(keys) \in DOMAIN row /\ NotNa(row[Head(keys)])
         THEN row[Head(keys)]
         ELSE safe_get(row, Tail(keys))

-----------------------------------------------------------------------------
(* Column names and keywords used by the code *)

K_cant == <<"c", "a", "n", "t">>
K_num_a == <<"n", "u", "m", "_", "a">>
K_departamento == <<"d", "e", "p", "a", "r", "t", "a", "m", "e", "n", "t", "o">>
K_tipo_de_pago == <<"t", "i", "p", "o", "_", "d", "e", "_", "p", "a", "g", "o">>
K_fecha_captura == <<"f", "e", "c", "h", "a", "_", "c", "a", "p", "t", "u", "r", "a">>
K_fecha == <<"f", "e", "c", "h", "a">>
K_folio == <<"f", "o", "l", "i", "o">>
K_cliente == <<"c", "l", "i", "e", "n", "t", "e">>
K_metodo_de_venta == <<"m", "e", "t", "o", "d", "o", "_", "d", "e", "_", "v", "e", "n", "t", "a">>
K_num_sucursal == <<"n", "u", "m", "_", "s", "u", "c", "u", "r", "s", "a", "l">>
K_sucursal == <<"s", "u", "c", "u", "r", "s", "a", "l">>
K_vendedor == <<"v", "e", "n", "d", "e", "d", "o", "r">>
K_salida == <<"s", "a", "l", "i", "d", "a">>
K_adicional_1 == <<"a", "d", "i", "c", "i", "o", "n", "a", "l", "_", "1">>
K_adicional_2 == <<"a", "d", "i", "c", "i", "o", "n", "a", "l", "_", "2">>
K_precio_adic_1 == <<"p", "r", "e", "c", "i", "o", "_", "a", "d", "i", "c", "_", "1">>
K_precio_adic_2 == <<"p", "r", "e", "c", "i", "o", "_", "a", "d", "i", "c", "_", "2">>
K_comp1 == <<"c", "o", "m", "p", "1">>
K_comp2 == <<"c", "o", "m", "p", "2">>
K_descr == <<"d", "e", "s", "c", "r">>
K_precio_final == <<"p", "r", "e", "c", "i", "o", "_", "f", "i", "n", "a", "l", "_">>

W_chs == <<"c", "h", "s">>
W_model == <<"m", "o", "d", "e", "l">>
W_cambio == <<"c", "a", "m", "b", "i", "o">>
W_cancel == <<"c", "a", "n", "c", "e", "l">>
W_folio == <<"f", "o", "l", "i", "o">>
W_modelo == <<"m", "o", "d", "e", "l", "o">>

-----------------------------------------------------------------------------
(* normalize_items *)

\* f"cant_{i}" and f"cant{i}"
CantUnder(i) == K_cant \o <<"_">> \o IntToText(i)
CantPlain(i) == K_cant \o IntToText(i)

\* the aliases of the quantity of slot i, in the order they are tried
CantKeys(i) ==
    IF i <= 3 THEN <<CantUnder(i), CantPlain(i)>>
    ELSE <<CantPlain(i), CantUnder(i)>>

\* QtyOk with "cant < 0" for "cant <= 0": a zero quantity is kept
QtyOk_ZeroKept(cant) == ~(IsNa(cant) \/ cant.n < 0)

\* the negation of "pd.isna(cant) or cant <= 0": the slot is kept
QtyOk(cant) == ~(IsNa(cant) \/ cant.n <= 0)

\* f"descr{i}_1" for slots 1-4 and 9, f"descr{i}" for slots 5-8
CategoriaKey(i) ==
    IF i <= 4 \/ i = 9 THEN K_descr \o IntToText(i) \o <<"_", "1">>
    ELSE K_descr \o IntToText(i)

\* f"descr{i}_2"
DescripcionKey(i) == K_descr \o IntToText(i) \o <<"_", "2">>

\* PrecioKey with slot 7 reading the price column of slot 6
PrecioKey_Slot7Reads6(i) == K_precio_final \o IntToText(IF i = 7 THEN 6 ELSE i)

\* f"precio_final_{i}"
PrecioKey(i) == K_precio_final \o IntToText(i)

\* str(v or "").lower(): None, '' and 0 are falsy
OrEmptyLower(v) ==
    IF v.t = "none" \/ (v.t = "str" /\ v.s = <<>>) \/ (v.t = "num" /\ v.n = 0)
    THEN <<>>
    ELSE Lower(AsText(v))

AnyIn(wordset, text) == \E w \in wordset : Contains(text, w)

CuponWords     == {W_chs, W_model, W_cambio, W_cancel, W_folio}
ComentarioWords == {W_cancel, W_modelo, W_model, W_cambio}

\* the three fields added when include_extras is set
Extras(r) ==
    LET adicional_1 == OrEmptyLower(safe_get(r, <<K_adicional_1>>))
        adicional_2 == OrEmptyLower(safe_get(r, <<K_adicional_2>>))
        comp1       == OrEmptyLower(safe_get(r, <<K_comp1>>))
        comp2       == OrEmptyLower(safe_get(r, <<K_comp2>>))
    IN  [comentario_cupon |->
            IF AnyIn(CuponWords, adicional_1) THEN safe_get(r, <<K_adicional_1>>)
            ELSE IF AnyIn(CuponWords, adicional_2) THEN safe_get(r, <<K_adicional_2>>)
            ELSE None,
         monto_cupon |->
            IF Contains(adicional_1, W_chs) THEN safe_get(r, <<K_precio_adic_1>>)
            ELSE IF Contains(adicional_2, W_chs) THEN safe_get(r, <<K_precio_adic_2>>)
            ELSE None,
         comentario |->
            IF AnyIn(ComentarioWords, comp1) THEN safe_get(r, <<K_comp1>>)
            ELSE IF AnyIn(ComentarioWords, comp2) THEN safe_get(r, <<K_comp2>>)
            ELSE None]

\* the dict built for slot i of row r, cant being its parsed quantity.
\* src_idx and src_slot are not columns of the output: they record the
\* index label and the slot the line was built from.
SlotLine(idx, r, i, cant, include_extras) ==
    LET line ==
            [fecha_captura   |-> safe_get(r, <<K_fecha_captura>>),
             fecha           |-> safe_get(r, <<K_fecha>>),
             folio           |-> safe_get(r, <<K_folio>>),
             departamento    |-> safe_get(r, <<K_departamento>>),
             cliente         |-> safe_get(r, <<K_cliente>>),
             metodo_de_venta |-> safe_get(r, <<K_metodo_de_venta>>),
             num_sucursal    |-> safe_get(r, <<K_num_sucursal>>),
             sucursal        |-> safe_get(r, <<K_sucursal>>),
             vendedor        |-> safe_get(r, <<K_vendedor>>),
             cantidad        |-> cant,
             categoria       |-> safe_get(r, <<CategoriaKey(i)>>),
             descripcion     |-> safe_get(r, <<DescripcionKey(i)>>),
             precio_final    |-> safe_get(r, <<PrecioKey(i)>>),
             tipo_de_pago    |-> safe_get(r, <<K_tipo_de_pago>>),
             salida          |-> safe_get(r, <<K_salida>>),
             src_idx         |-> idx,
             src_slot        |-> i]
    IN  IF include_extras THEN line @@ Extras(r) ELSE line

\* Emit with the line put in front: out.insert(0, row)
Emit_InFront(acc, line) == <<line>> \o acc

\* out.append(row)
Emit(acc, line) == Append(acc, line)

\* for i in range(1, items + 1), from slot i on
RECURSIVE SlotLoop(_, _, _, _, _, _)
SlotLoop(acc, idx, r, i, items, include_extras) ==
    IF i > items THEN acc
    ELSE LET cant == ToNumeric(safe_get(r, CantKeys(i)))
         IN  SlotLoop(IF QtyOk(cant)
                      THEN Emit(acc, SlotLine(idx, r, i, cant, include_extras))
                      ELSE acc,
                      idx, r, i + 1, items, include_extras)

\* for _, r in df.iterrows(), from row k on
RECURSIVE RowLoop(_, _, _, _, _)
RowLoop(acc, rows, k, items, include_extras) ==
    IF k > Len(rows) THEN acc
    ELSE RowLoop(SlotLoop(acc, rows[k].idx, rows[k].cells, 1, items, include_extras),
                 rows, k + 1, items, include_extras)

BaseColumns ==
    <<"fecha_captura", "fecha", "folio", "departamento", "cliente",
      "metodo_de_venta", "num_sucursal", "sucursal", "vendedor", "cantidad",
      "categoria", "descripcion", "precio_final", "tipo_de_pago", "salida">>

ExtraColumns == <<"comentario_cupon", "monto_cupon", "comentario">>

\* pd.DataFrame(out): the columns are the keys of the dicts, and a list of
\* no dicts gives a frame with no columns
DataFrameOf(lines, include_extras) ==
    [columns |-> IF lines = <<>> THEN <<>>
                 ELSE IF include_extras THEN BaseColumns \o ExtraColumns
                 ELSE BaseColumns,
     rows    |-> lines]

\* rows are the rows of the frame passed as df
normalize_items(rows, items, include_extras) ==
    DataFrameOf(RowLoop(<<>>, rows, 1, items, include_extras), include_extras)

-----------------------------------------------------------------------------
(* The source sheets of the model: headers as they are typed in the sheet *)
(* (the column normaliser gives the names the code looks up) and cells as  *)
(* get_all_records() returns them: numbers, texts, '' for a blank cell.    *)

H_num_a == <<"#", " ", "A">>
H_departamento == <<"D", "e", "p", "a", "r", "t", "a", "m", "e", "n", "t", "o">>
H_tipo_de_pago == <<"T", "i", "p", "o", " ", "d", "e", " ", "P", "a", "g", "o">>
H_folio == <<"F", "o", "l", "i", "o">>
H_fecha == <<"F", "e", "c", "h", "a">>
H_cliente == <<"C", "l", "i", "e", "n", "t", "e">>
H_metodo == <<"M", "é", "t", "o", "d", "o", " ", "d", "e", " ", "V", "e", "n", "t", "a">>
H_num_sucursal == <<"#", " ", "S", "u", "c", "u", "r", "s", "a", "l">>
H_sucursal == <<"S", "u", "c", "u", "r", "s", "a", "l">>
H_adicional_1 == <<"A", "d", "i", "c", "i", "o", "n", "a", "l", " ", "1">>
H_adicional_2 == <<"A", "d", "i", "c", "i", "o", "n", "a", "l", " ", "2">>
H_precio_adic_1 == <<"P", "r", "e", "c", "i", "o", " ", "A", "d", "i", "c", ".", " ", "1">>
H_precio_adic_2 == <<"P", "r", "e", "c", "i", "o", " ", "A", "d", "i", "c", ".", " ", "2">>
H_comp1 == <<"C", "o", "m", "p", "1">>
H_comp2 == <<"C", "o", "m", "p", "2">>
H_cant == <<"C", "a", "n", "t">>
H_descr == <<"D", "e", "s", "c", "r">>
H_precio_final == <<"P", "r", "e", "c", "i", "o", " ", "F", "i", "n", "a", "l", " ">>

T_iso_date == <<"2", "0", "2", "4", "-", "0", "1", "-", "1", "5">>
T_acme == <<"A", "C", "M", "E">>
T_web == <<"w", "e", "b">>
T_centro == <<"C", "e", "n", "t", "r", "o">>
T_chs_10 == <<"C", "H", "S", " ", "1", "0">>
T_cancelado == <<"C", "a", "n", "c", "e", "l", "a", "d", "o">>
T_x == <<"x">>
T_cambio_chs == <<"C", "a", "m", "b", "i", "o", " ", "c", "h", "s">>
T_modelo_b == <<"M", "o", "d", "e", "l", "o", " ", "B">>
T_Sucursal == <<" ", "S", "u", "c", "u", "r", "s", "a", "l">>
T_Pago_Total == <<"P", "a", "g", "o", " ", " ", "T", "o", "t", "a", "l">>
T_Constructora == <<"C", "o", "n", "s", "t", "r", "u", "c", "t", "o", "r", "a">>
T_Distribuidores == <<"D", "I", "S", "T", "R", "I", "B", "U", "I", "D", "O", "R", "E", "S", " ">>
T_Pago == <<"P", "a", "g", "o">>
T_Complemento == <<"c", "o", "m", "p", "l", "e", "m", "e", "n", "t", "o">>
T_Puerta == <<"P", "u", "e", "r", "t", "a", " ", "p", "a", "g", "a", "d", "a", "\t", "(", "A", "n", "t", "i", "c", "i", "p", "o", ")">>
T_otro == <<"o", "t", "r", "o">>

Blank == Str(<<>>)

\* the quantity header of slot i in the three layouts of the model:
\* 1: "Cant 1".."Cant 3", "Cant4".."Cant9" (the names the code comments give)
\* 2: "CANT-i" for every slot   3: "Cant.i" for every slot
QtyHeader(layout, i) ==
    IF layout = 1
    THEN (IF i <= 3 THEN H_cant \o <<" ">> \o IntToText(i) ELSE H_cant \o IntToText(i))
    ELSE IF layout = 2 THEN Upper(H_cant) \o <<"-">> \o IntToText(i)
    ELSE H_cant \o <<".">> \o IntToText(i)

\* "Descr1 1".."Descr4 1", "Descr5".."Descr8", "Descr9 1"
CategoriaHeader(i) ==
    IF i \in {5, 6, 7, 8} THEN H_descr \o IntToText(i)
    ELSE H_descr \o IntToText(i) \o <<" ", "1">>

DescripcionHeader(i) == H_descr \o IntToText(i) \o <<"/", "2">>

PrecioHeader(i) == H_precio_final \o IntToText(i)

\* the cells of slot i: quantity q, category "c<i>", description "d<i>" and
\* final price 100 + i
SlotRecord(layout, i, q) ==
    (QtyHeader(layout, i) :> q)
    @@ (CategoriaHeader(i) :> Str(<<"c">> \o IntToText(i)))
    @@ (DescripcionHeader(i) :> Str(<<"d">> \o IntToText(i)))
    @@ (PrecioHeader(i) :> Num(100 + i))

RECURSIVE SlotsRecord(_, _, _)
SlotsRecord(layout, qty, i) ==
    IF i = 0 THEN <<>>
    ELSE SlotRecord(layout, i, qty[i]) @@ SlotsRecord(layout, qty, i - 1)

\* the annotation cells, one variant per layout
ExtrasRecord(layout) ==
    IF layout = 1
    THEN (H_adicional_1 :> Str(T_chs_10)) @@ (H_precio_adic_1 :> Num(50))
         @@ (H_adicional_2 :> Blank) @@ (H_precio_adic_2 :> Blank)
         @@ (H_comp1 :> Str(T_cancelado)) @@ (H_comp2 :> Blank)
    ELSE IF layout = 2
    THEN (H_adicional_1 :> Str(T_x)) @@ (H_precio_adic_1 :> Blank)
         @@ (H_adicional_2 :> Str(T_cambio_chs)) @@ (H_precio_adic_2 :> Num(30))
         @@ (H_comp1 :> Blank) @@ (H_comp2 :> Str(T_modelo_b))
    ELSE (H_adicional_1 :> Blank) @@ (H_precio_adic_1 :> Blank)
         @@ (H_adicional_2 :> Blank) @@ (H_precio_adic_2 :> Blank)
         @@ (H_comp1 :> Blank) @@ (H_comp2 :> Blank)

\* one record of the sheet; the sheet has no "Fecha Captura", "Vendedor" or
\* "Salida" column
SheetRecord(layout, num_a, departamento, tipo_de_pago, qty) ==
    (H_num_a :> num_a) @@ (H_departamento :> departamento)
    @@ (H_tipo_de_pago :> tipo_de_pago)
    @@ (H_folio :> Num(7)) @@ (H_fecha :> Str(T_iso_date))
    @@ (H_cliente :> Str(T_acme)) @@ (H_metodo :> Str(T_web))
    @@ (H_num_sucursal :> Str(<<"3">>)) @@ (H_sucursal :> Str(T_centro))
    @@ ExtrasRecord(layout)
    @@ SlotsRecord(layout, qty, 9)

-----------------------------------------------------------------------------
(* read_base *)

S_constructora == <<"c", "o", "n", "s", "t", "r", "u", "c", "t", "o", "r", "a">>
S_distribuidores == <<"d", "i", "s", "t", "r", "i", "b", "u", "i", "d", "o", "r", "e", "s">>
S_sucursal == <<"s", "u", "c", "u", "r", "s", "a", "l">>
S_pago == <<"p", "a", "g", "o">>
S_pago_total == <<"p", "a", "g", "o", " ", "t", "o", "t", "a", "l">>
S_puerta_pagada == <<"p", "u", "e", "r", "t", "a", " ", "p", "a", "g", "a", "d", "a", " ", "(", "a", "n", "t", "i", "c", "i", "p", "o", ")">>
S_complemento == <<"c", "o", "m", "p", "l", "e", "m", "e", "n", "t", "o">>
S_GENERAL == <<"G", "E", "N", "E", "R", "A", "L">>
S_CONSTRUCTORA == <<"C", "O", "N", "S", "T", "R", "U", "C", "T", "O", "R", "A">>
S_DISTRIBUIDORES == <<"D", "I", "S", "T", "R", "I", "B", "U", "I", "D", "O", "R", "E", "S">>
S_SUCURSALES == <<"S", "U", "C", "U", "R", "S", "A", "L", "E", "S">>

\* the conversions of the columns num_a, departamento and tipo_de_pago
ConvertCell(c, v) ==
    IF c = K_num_a THEN ToNumeric(v)
    ELSE IF c = K_departamento THEN Str(Lower(Strip(AsText(v))))
    ELSE IF c = K_tipo_de_pago THEN Str(CollapseSpaces(Lower(Strip(AsText(v)))))
    ELSE v

\* column_map: the normalised name of every header
RECURSIVE ColumnMap(_)
ColumnMap(headers) ==
    IF headers = {} THEN <<>>
    ELSE LET h == CHOOSE x \in headers : TRUE
         IN  (h :> NormalizeColumn(h)) @@ ColumnMap(headers \ {h})

\* ColumnMap of the headers of the three layouts, computed once
LayoutHeaders(layout) ==
    DOMAIN SheetRecord(layout, Blank, Blank, Blank, [i \in 1..9 |-> Blank])

LayoutColumnMaps ==
    <<ColumnMap(LayoutHeaders(1)), ColumnMap(LayoutHeaders(2)), ColumnMap(LayoutHeaders(3))>>

\* ColumnMap(headers), looked up in LayoutColumnMaps when headers are those
\* of a layout
ColumnMapOf(headers) ==
    IF \E l \in 1..3 : DOMAIN LayoutColumnMaps[l] = headers
    THEN LayoutColumnMaps[CHOOSE l \in 1..3 : DOMAIN LayoutColumnMaps[l] = headers]
    ELSE ColumnMap(headers)

\* one record after df.rename(columns=column_map) and the conversions of
\* its num_a, departamento and tipo_de_pago cells.  The sheets of this model
\* hold no two headers with the same normal form.
RECURSIVE RenameRecord(_, _, _)
RenameRecord(rec, column_map, headers) ==
    IF headers = {} THEN <<>>
    ELSE LET h == CHOOSE x \in headers : TRUE
             c == column_map[h]
         IN  (c :> ConvertCell(c, rec[h])) @@ RenameRecord(rec, column_map, headers \ {h})

\* the rows of the frame: record k gets index label k - 1
RECURSIVE FrameRows(_, _, _)
FrameRows(records, column_map, k) ==
    IF k > Len(records) THEN <<>>
    ELSE <<[idx   |-> k - 1,
            cells |-> RenameRecord(records[k], column_map, DOMAIN records[k])]>>
         \o FrameRows(records, column_map, k + 1)

\* the result of read_base: an exception raised, or the DataFrame.  A missing
\* worksheet and an empty one raise ValueError; a sheet with no num_a column
\* raises KeyError at df["num_a"].
read_base(sh) ==
    IF ~sh.found
    THEN [raised |-> "ValueError", frame |-> Idle]
    ELSE IF sh.records = <<>>
    THEN [raised |-> "ValueError", frame |-> Idle]
    ELSE
        LET column_map == ColumnMapOf(DOMAIN sh.records[1])
            columns    == {column_map[h] : h \in DOMAIN column_map}
        IN  IF K_num_a \notin columns
            THEN [raised |-> "KeyError", frame |-> Idle]
            ELSE [raised |-> "none",
                  frame  |-> [columns |-> columns,
                              rows    |-> FrameRows(sh.records, column_map, 1)]]

-----------------------------------------------------------------------------
(* filtrar_por_fecha and the four reports *)

\* InRange with the upper end left out: num_a < fin
InRange_FinExcluded(v, ini, fin) == v.t = "num" /\ v.n >= ini /\ v.n < fin

\* (num_a >= ini) & (num_a <= fin): every comparison with NaN is False
InRange(v, ini, fin) == v.t = "num" /\ v.n >= ini /\ v.n <= fin

\* df[mask]: the rows satisfying the mask, in their order, index labels kept
filtrar_por_fecha(frame, ini, fin) ==
    LET Mask(r) == InRange(r.cells[K_num_a], ini, fin)
    IN  [columns |-> frame.columns, rows |-> SelectSeq(frame.rows, Mask)]

PagosSucursal == {Str(S_pago_total), Str(S_puerta_pagada), Str(S_complemento)}

\* MaskGeneral without the department distribuidores
MaskGeneral_NoDistribuidores(r) ==
    \/ r.cells[K_departamento] = Str(S_constructora)
    \/ /\ r.cells[K_departamento] = Str(S_sucursal)
       /\ r.cells[K_tipo_de_pago] \in PagosSucursal

MaskGeneral(r) ==
    \/ r.cells[K_departamento] \in {Str(S_constructora), Str(S_distribuidores)}
    \/ /\ r.cells[K_departamento] = Str(S_sucursal)
       /\ r.cells[K_tipo_de_pago] \in PagosSucursal

MaskConstructora(r) == r.cells[K_departamento] = Str(S_constructora)

MaskDistribuidores(r) ==
    /\ r.cells[K_departamento] = Str(S_distribuidores)
    /\ r.cells[K_tipo_de_pago] = Str(S_pago)

MaskSucursales(r) ==
    /\ r.cells[K_departamento] = Str(S_sucursal)
    /\ r.cells[K_tipo_de_pago] \in PagosSucursal

reporte_general(frame) == normalize_items(SelectSeq(frame.rows, MaskGeneral), 9, FALSE)

reporte_constructora(frame) ==
    normalize_items(SelectSeq(frame.rows, MaskConstructora), 9, FALSE)

reporte_distribuidores(frame) ==
    normalize_items(SelectSeq(frame.rows, MaskDistribuidores), 9, FALSE)

reporte_sucursales(frame) ==
    normalize_items(SelectSeq(frame.rows, MaskSucursales), 6, TRUE)

\* KindOf without tipo.upper(): the kind is compared as it was given
KindOf_AsGiven(tipo) == tipo

\* tipo.upper(), the letter case the report kind is compared in
KindOf(tipo) == Upper(tipo)

\* the columns the mask of a report kind reads: a frame without one of them
\* raises KeyError
MaskColumns(kind) ==
    IF kind = S_CONSTRUCTORA THEN {K_departamento}
    ELSE {K_departamento, K_tipo_de_pago}

\* the result of run_reporte: an exception raised (with the value its
\* message names), or the DataFrame of sales lines.  tipo is a cell: a str
\* has upper(), any other JSON value raises AttributeError.
run_reporte(tipo, frame) ==
    IF tipo.t # "str"
    THEN [raised |-> "AttributeError", named |-> <<>>, frame |-> Idle]
    ELSE
        LET kind == KindOf(tipo.s)
        IN  IF kind \notin {S_GENERAL, S_CONSTRUCTORA, S_DISTRIBUIDORES, S_SUCURSALES}
            THEN [raised |-> "ValueError", named |-> kind, frame |-> Idle]
            ELSE IF ~(MaskColumns(kind) \subseteq frame.columns)
            THEN [raised |-> "KeyError", named |-> <<>>, frame |-> Idle]
            ELSE [raised |-> "none", named |-> <<>>,
                  frame  |->
                     IF kind = S_GENERAL THEN reporte_general(frame)
                     ELSE IF kind = S_CONSTRUCTORA THEN reporte_constructora(frame)
                     ELSE IF kind = S_DISTRIBUIDORES THEN reporte_distribuidores(frame)
                     ELSE reporte_sucursales(frame)]

ejecutar_reporte(tipo, frame, ini, fin) ==
    run_reporte(tipo, filtrar_por_fecha(frame, ini, fin))

-----------------------------------------------------------------------------
(* write_to_sheet_legacy_style *)

\* start_row
StartRow == 26

header_map ==
    [col \in {"fecha_captura", "fecha", "folio", "departamento", "cliente", "metodo_de_venta",
              "num_sucursal", "sucursal", "vendedor", "cantidad", "categoria", "descripcion",
              "precio_final", "tipo_de_pago", "salida", "comentario_cupon", "monto_cupon", "comentario"} |->
        CASE col = "fecha_captura" -> <<"F", "e", "c", "h", "a", " ", "C", "a", "p", "t", "u", "r", "a">>
          [] col = "fecha" -> <<"F", "e", "c", "h", "a">>
          [] col = "folio" -> <<"F", "o", "l", "i", "o">>
          [] col = "departamento" -> <<"D", "e", "p", "a", "r", "t", "a", "m", "e", "n", "t", "o">>
          [] col = "cliente" -> <<"C", "l", "i", "e", "n", "t", "e">>
          [] col = "metodo_de_venta" -> <<"M", "e", "t", "o", "d", "o", " ", "d", "e", " ", "V", "e", "n", "t", "a">>
          [] col = "num_sucursal" -> <<"N", "u", "m", " ", "S", "u", "c", "u", "r", "s", "a", "l">>
          [] col = "sucursal" -> <<"S", "u", "c", "u", "r", "s", "a", "l">>
          [] col = "vendedor" -> <<"V", "e", "n", "d", "e", "d", "o", "r">>
          [] col = "cantidad" -> <<"C", "a", "n", "t", "i", "d", "a", "d">>
          [] col = "categoria" -> <<"C", "a", "t", "e", "g", "o", "r", "i", "a">>
          [] col = "descripcion" -> <<"D", "e", "s", "c", "r", "i", "p", "c", "i", "o", "n">>
          [] col = "precio_final" -> <<"P", "r", "e", "c", "i", "o", " ", "F", "i", "n", "a", "l">>
          [] col = "tipo_de_pago" -> <<"T", "i", "p", "o", " ", "d", "e", " ", "P", "a", "g", "o">>
          [] col = "salida" -> <<"S", "a", "l", "i", "d", "a">>
          [] col = "comentario_cupon" -> <<"C", "o", "m", "e", "n", "t", "a", "r", "i", "o", " ", "C", "u", "p", "o", "n">>
          [] col = "monto_cupon" -> <<"M", "o", "n", "t", "o", " ", "C", "u", "p", "o", "n">>
          [] col = "comentario" -> <<"C", "o", "m", "e", "n", "t", "a", "r", "i", "o">>]

\* the text is a date pd.to_datetime parses and strftime prints back as it
\* is: YYYY-MM-DD.  The only date texts of this model are of that shape or
\* hold no digit at all.
IsIsoDate(s) ==
    /\ Len(s) = 10
    /\ s[5] = "-" /\ s[8] = "-"
    /\ \A i \in {1, 2, 3, 4, 6, 7, 9, 10} : IsDigit(s[i])

parse_date_safe(v) ==
    IF IsNa(v) \/ Strip(AsText(v)) = <<>> THEN Str(<<>>)
    ELSE IF v.t = "str" /\ IsIsoDate(v.s) THEN v
    ELSE Str(AsText(v))

numeric_cols == {"folio", "num_sucursal", "cantidad", "precio_final", "monto_cupon"}

\* .str.capitalize() / .str.title(): a value that is no str becomes NaN
CapitalizeCell(v) == IF v.t = "str" THEN Str(Capitalize(v.s)) ELSE NaN
TitleCell(v)      == IF v.t = "str" THEN Str(Title(v.s)) ELSE NaN

\* the cell written for column col of a sales line
FormatCell(col, v) ==
    LET formatted ==
            IF col = "departamento" THEN CapitalizeCell(v)
            ELSE IF col = "tipo_de_pago" THEN TitleCell(v)
            ELSE IF col \in {"fecha_captura", "fecha"} THEN parse_date_safe(v)
            ELSE IF col \in numeric_cols THEN ToNumeric(v)
            ELSE v
    IN  IF IsNa(formatted) THEN Str(<<>>)
        ELSE IF col \in numeric_cols THEN formatted
        ELSE Str(AsText(formatted))

FormatLine(columns, line) ==
    [i \in 1..Len(columns) |-> FormatCell(columns[i], line[columns[i]])]

\* ws.batch_clear of A26 to the last cell, when the sheet has that many rows
ClearFrom(ws, start_row) ==
    IF ws.row_count >= start_row
    THEN [ws EXCEPT !.cells = [r \in {x \in DOMAIN ws.cells : x < start_row} |-> ws.cells[r]]]
    ELSE ws

\* ws.update(f"A{row}", values): the rows of values go to row, row + 1, ...;
\* a row of no values writes nothing
Update(ws, row, values) ==
    LET written == {k \in 1..Len(values) : values[k] # <<>>}
    IN  [ws EXCEPT !.cells =
            [r \in {row + k - 1 : k \in written} |-> values[r - row + 1]] @@ ws.cells]

\* the header row: a single row, of the display names of the frame's columns
HeaderRow(frame) == [i \in 1..Len(frame.columns) |-> Str(header_map[frame.columns[i]])]

\* the data rows, written only when the frame has rows
WriteData(ws, frame, start_row) ==
    IF Len(frame.rows) > 0
    THEN Update(ws, start_row + 1,
                [k \in 1..Len(frame.rows) |-> FormatLine(frame.columns, frame.rows[k])])
    ELSE ws

write_to_sheet_legacy_style(ws, frame, start_row) ==
    WriteData(Update(ClearFrom(ws, start_row), start_row, <<HeaderRow(frame)>>),
              frame, start_row)

-----------------------------------------------------------------------------
(* run_multi *)

required == <<"spreadsheet_base_id", "spreadsheet_reporte_id", "fecha_ini", "fecha_fin", "tipo">>

\* the responses: jsonify(status="error", error=...) with its HTTP code, and
\* jsonify(status="ok", tipo=tipo, rows=len(out)).  An error is the text of
\* its message, the request field the message names and the value it names.
ErrorResp(code, text, field, value) ==
    [code |-> code, status |-> "error", text |-> text, field |-> field,
     value |-> value, rows |-> 0]

OkResp(tipo, rows) ==
    [code |-> 200, status |-> "ok", text |-> "", field |-> "", value |-> tipo.s,
     rows |-> rows]

\* int(v): a JSON number is taken as it is, a text is parsed (ValueError
\* when it is no integer text), null raises TypeError
IntRaises(v) ==
    IF v.t = "num" THEN "none"
    ELSE IF v.t = "str" THEN (IF IsIntText(v.s) THEN "none" ELSE "ValueError")
    ELSE "TypeError"

IntOf(v) == IF v.t = "num" THEN v.n ELSE IntOfText(v.s)

\* the index labels of the rows of a frame
Labels(frame) == [k \in 1..Len(frame.rows) |-> frame.rows[k].idx]

\* what serving request r does, base being what read_base(...) returns or
\* raises and ws the destination sheet: the response, the destination sheet
\* after it, the rows filtrar_por_fecha kept and the frame of sales lines
\* (Idle when not reached).  "except ValueError" answers 400, "except
\* Exception" 500.
run_multi(r, base, ws) ==
    LET Fail(code, text, field, value) ==
            [resp |-> ErrorResp(code, text, field, value), ws |-> ws,
             df_fechas |-> Idle, out |-> Idle]
        absent == {k \in 1..Len(required) : required[k] \in r.missing}
    IN  IF absent # {}
        THEN Fail(400, "Falta parametro",
                  required[CHOOSE k \in absent : \A j \in absent : k <= j], <<>>)
        ELSE IF base.raised = "ValueError"
        THEN Fail(400, "read_base", "", <<>>)
        ELSE IF base.raised # "none"
        THEN Fail(500, base.raised, "", <<>>)
        ELSE IF IntRaises(r.fecha_ini) # "none"
        THEN Fail(IF IntRaises(r.fecha_ini) = "ValueError" THEN 400 ELSE 500,
                  IntRaises(r.fecha_ini), "fecha_ini", AsText(r.fecha_ini))
        ELSE IF IntRaises(r.fecha_fin) # "none"
        THEN Fail(IF IntRaises(r.fecha_fin) = "ValueError" THEN 400 ELSE 500,
                  IntRaises(r.fecha_fin), "fecha_fin", AsText(r.fecha_fin))
        ELSE
            LET ini      == IntOf(r.fecha_ini)
                fin      == IntOf(r.fecha_fin)
                fechas   == filtrar_por_fecha(base.frame, ini, fin)
                reporte  == run_reporte(r.tipo, fechas)
            IN  IF reporte.raised = "ValueError"
                THEN [Fail(400, "Tipo no valido", "tipo", reporte.named)
                        EXCEPT !.df_fechas = [labels |-> Labels(fechas)]]
                ELSE IF reporte.raised # "none"
                THEN [Fail(500, reporte.raised, "", <<>>)
                        EXCEPT !.df_fechas = [labels |-> Labels(fechas)]]
                ELSE [resp      |-> OkResp(r.tipo, Len(reporte.frame.rows)),
                      ws        |-> write_to_sheet_legacy_style(ws, reporte.frame, StartRow),
                      df_fechas |-> [labels |-> Labels(fechas)],
                      out       |-> reporte.frame]

\* the rows of the frame read_base returned, and the one with index label idx
DfRows == loaded.frame.rows
RowOf(idx) == DfRows[CHOOSE k \in 1..Len(DfRows) : DfRows[k].idx = idx]

\* the quantity resolved for slot i of a row, and whether it is rejected
C1_Resolved(r, i) == safe_get(r.cells, CantKeys(i))
C1_Rejected(q) == ToNumeric(q).t # "num" \/ ToNumeric(q).n <= 0

-----------------------------------------------------------------------------
(* The service: one request is served, and may be issued again unchanged   *)
(* (the caller re-invokes the endpoint); the sheet and what the            *)
(* destination held before are chosen initially.                           *)

\* the quantities of the rows of these sheets: slots 2 and 7 filled, slot 3
\* holding a text
QtyTwoLines ==
    [i \in 1..9 |-> IF i = 2 THEN Num(2) ELSE IF i = 7 THEN Str(<<"3">>)
                    ELSE IF i = 3 THEN Str(<<"x">>) ELSE Blank]

\* the records of the sheets of Spec: date-codes 0..MaxDate + 1 and a text
\* date-code under department Constructora, and date-code 1 under a
\* department no report selects
DateRecords ==
    {SheetRecord(1, Num(d), Str(T_Constructora), Str(T_Pago), QtyTwoLines) :
        d \in 0..(MaxDate + 1)}
    \cup {SheetRecord(1, Str(T_x), Str(T_Constructora), Str(T_Pago), QtyTwoLines),
          SheetRecord(1, Str(<<"1">>), Str(T_otro), Str(T_Pago), QtyTwoLines)}

MissingSheet == [found |-> FALSE, records |-> <<>>]

SheetsOf(records, n) ==
    {[found |-> TRUE, records |-> q] : q \in SeqsUpTo(records, n)}

\* what the destination holds before the request: nothing, or a title in
\* row 25, an older report from row 26 and a note in row 40
BlankDest == [row_count |-> 1000, cells |-> <<>>]

OldDest ==
    [row_count |-> 1000,
     cells |-> (25 :> <<Str(<<"R", "e", "p", "o", "r", "t", "e">>)>>)
               @@ (26 :> <<Str(<<"F", "o", "l", "i", "o">>), Str(<<"C", "a", "n", "t">>)>>)
               @@ (27 :> <<Num(1), Num(5)>>)
               @@ (40 :> <<Blank, Blank, Str(<<"n", "o", "t", "a">>)>>)]

T_FOO == <<"F", "O", "O">>

\* the requests of Spec
Requests ==
    {[missing |-> {}, fecha_ini |-> Num(ini), fecha_fin |-> Num(fin), tipo |-> tipo] :
        ini \in 1..MaxDate, fin \in 1..MaxDate,
        tipo \in {Str(S_GENERAL), Str(Lower(S_CONSTRUCTORA)), Str(Capitalize(S_SUCURSALES)),
                  Str(T_FOO), Str(Lower(T_FOO)), Num(5)}}
    \cup {[missing |-> m, fecha_ini |-> Num(1), fecha_fin |-> Num(1), tipo |-> Str(T_FOO)] :
            m \in {{"tipo"}, {"fecha_fin", "spreadsheet_base_id"}}}
    \cup {[missing |-> {}, fecha_ini |-> a, fecha_fin |-> b, tipo |-> Str(S_GENERAL)] :
            <<a, b>> \in {<<Str(<<"1">>), Str(<<"2">>)>>, <<Str(T_x), Num(1)>>,
                          <<Num(1), None>>}}

\* request r is served; the handler's read_base(...) is taken from loaded
RunMulti(r) ==
    /\ resp = Idle \/ r = req
    /\ LET served == run_multi(r, loaded, dest)
       IN  /\ req' = r
           /\ resp' = served.resp
           /\ dest' = served.ws
           /\ df_fechas' = served.df_fechas
           /\ out' = served.out
    /\ UNCHANGED <<sheet, loaded, sg, hdr>>

Init ==
    /\ sheet \in {MissingSheet} \cup SheetsOf(DateRecords, MaxRows)
    /\ loaded = read_base(sheet)
    /\ dest \in {BlankDest, OldDest}
    /\ req = Idle /\ resp = Idle
    /\ df_fechas = Idle /\ out = Idle /\ sg = Idle /\ hdr = Idle

Next == \E r \in Requests : RunMulti(r)

Spec == Init /\ [][Next]_vars

\* a request was served and answered 200
Served200 == resp # Idle /\ resp.code = 200

\* C2: the sales lines come out in input order: a line of an earlier source
\* row is before a line of a later one, and two lines of the same row are in
\* slot order; the date filter does not reorder the rows either.
C2_InputOrderKept ==
    Served200 =>
        /\ \A a, b \in 1..Len(df_fechas.labels) :
              a < b => df_fechas.labels[a] < df_fechas.labels[b]
        /\ \A a, b \in 1..Len(out.rows) :
              a < b =>
                  \/ out.rows[a].src_idx < out.rows[b].src_idx
                  \/ /\ out.rows[a].src_idx = out.rows[b].src_idx
                     /\ out.rows[a].src_slot < out.rows[b].src_slot

\* both records of a sheet of two gave their two lines
C2_Witness ==
    /\ Served200
    /\ Len(out.rows) = 4
    /\ out.rows[2].src_idx = 0 /\ out.rows[3].src_idx = 1
    /\ out.rows[1].src_slot = 2 /\ out.rows[2].src_slot = 7

\* the date-code of record k of the sheet, as typed in its "# A" cell
C5_Typed(k) == sheet.records[k][H_num_a]

C5_Kept(k) == \E j \in 1..Len(df_fechas.labels) : df_fechas.labels[j] = k - 1

\* C5: filtrar_por_fecha keeps exactly the rows whose date-code parses as a
\* number and lies in [ini, fin], both ends included; a row whose date-code
\* does not parse is dropped for every ini and fin.
C5_ClosedDateInterval ==
    (resp # Idle /\ df_fechas # Idle) =>
        \A k \in 1..Len(sheet.records) :
            C5_Kept(k) <=>
                /\ ToNumeric(C5_Typed(k)).t = "num"
                /\ IntOf(req.fecha_ini) <= ToNumeric(C5_Typed(k)).n
                /\ ToNumeric(C5_Typed(k)).n <= IntOf(req.fecha_fin)

\* a record at date-code fin is kept and a record one code after fin is
\* dropped (ini < fin)
C5_Witness ==
    /\ Served200
    /\ IntOf(req.fecha_ini) < IntOf(req.fecha_fin)
    /\ Len(sheet.records) = 2
    /\ C5_Typed(1) = Num(IntOf(req.fecha_fin)) /\ C5_Kept(1)
    /\ C5_Typed(2) = Num(IntOf(req.fecha_fin) + 1) /\ ~C5_Kept(2)

ReportKinds == {S_GENERAL, S_CONSTRUCTORA, S_DISTRIBUIDORES, S_SUCURSALES}

\* the request is well formed but for its tipo, and the source sheet is read
C6_OnlyTipoIsWrong ==
    /\ resp # Idle
    /\ req.missing = {}
    /\ loaded.raised = "none"
    /\ IntRaises(req.fecha_ini) = "none" /\ IntRaises(req.fecha_fin) = "none"
    /\ ~(req.tipo.t = "str" /\ Upper(req.tipo.s) \in ReportKinds)

\* C6: a request whose tipo is none of the four report kinds (in any letter
\* case) is answered 400 with a message naming the offending value (here: up
\* to letter case), and the destination sheet is left as it was.
C6_UnknownKindIs400 ==
    C6_OnlyTipoIsWrong =>
        /\ resp.code = 400
        /\ resp.field = "tipo"
        /\ Upper(resp.value) = Upper(AsText(req.tipo))
        /\ dest \in {BlankDest, OldDest}

\* the header row of the output field names of a report kind
C7_Header(kind) ==
    LET names == IF kind = S_SUCURSALES THEN BaseColumns \o ExtraColumns ELSE BaseColumns
    IN  [i \in 1..Len(names) |-> Str(header_map[names[i]])]

\* C7: after a request answered with success, the destination from row 26
\* down holds the header row of the output field names at row 26, one data
\* row per sales line from row 27, and nothing else, also when the report
\* has no sales line.
C7_RegionIsHeaderAndData ==
    Served200 =>
        /\ {r \in DOMAIN dest.cells : r >= StartRow} = StartRow..(StartRow + resp.rows)
        /\ dest.cells[StartRow] = C7_Header(Upper(req.tipo.s))
        /\ \A k \in 1..resp.rows :
              Len(dest.cells[StartRow + k]) = Len(C7_Header(Upper(req.tipo.s)))
        /\ \A r \in DOMAIN dest.cells : r < StartRow => dest.cells[r] = OldDest.cells[r]

\* what does hold of the destination: C7 for the reports with a sales line,
\* and a region left empty by the reports without one
C7_RegionWhenLines ==
    Served200 =>
        IF resp.rows > 0
        THEN /\ {r \in DOMAIN dest.cells : r >= StartRow} = StartRow..(StartRow + resp.rows)
             /\ dest.cells[StartRow] = C7_Header(Upper(req.tipo.s))
        ELSE {r \in DOMAIN dest.cells : r >= StartRow} = {}

\* serving the same request again leaves the destination as it is
C7_RerunKeepsDestination ==
    [][(resp # Idle /\ resp.code = 200 /\ resp'.code = 200) => dest' = dest]_vars

-----------------------------------------------------------------------------
(* The service over sheets whose records differ in department, payment    *)
(* type and date-code, asked for every report kind in three letter cases.  *)

\* slots 1, 6, 7 and 9 hold a quantity, slot 4 holds 0
QtyAcrossSlots ==
    [i \in 1..9 |-> IF i = 1 THEN Num(2) ELSE IF i = 6 THEN Num(1)
                    ELSE IF i = 7 THEN Num(4) ELSE IF i = 9 THEN Str(<<"3">>)
                    ELSE IF i = 4 THEN Num(0) ELSE Blank]

FilterRecords ==
    {SheetRecord(1, Num(d), Str(dep), Str(pago), QtyAcrossSlots) :
        d \in {1, MaxDate + 1},
        dep \in {T_Constructora, T_Distribuidores, T_Sucursal, T_otro},
        pago \in {T_Pago, T_Pago_Total, T_Complemento, T_Puerta, T_otro}}

FilterRequests ==
    {[missing |-> {}, fecha_ini |-> Num(1), fecha_fin |-> Num(MaxDate), tipo |-> Str(tipo)] :
        tipo \in UNION {{k, Lower(k), Capitalize(k)} : k \in ReportKinds} \cup {T_FOO}}

InitFilter ==
    /\ sheet \in SheetsOf(FilterRecords, MaxFilterRows)
    /\ loaded = read_base(sheet)
    /\ dest = OldDest
    /\ req = Idle /\ resp = Idle
    /\ df_fechas = Idle /\ out = Idle /\ sg = Idle /\ hdr = Idle

NextFilter == \E r \in FilterRequests : RunMulti(r)

SpecFilter == InitFilter /\ [][NextFilter]_vars

\* the predicate of each report kind over a row of the frame
C3_Departamento(r) == r.cells[K_departamento].s
C3_TipoDePago(r)   == r.cells[K_tipo_de_pago].s

C3_SucursalPagos == {S_pago_total, S_puerta_pagada, S_complemento}

C3_Selected(kind, r) ==
    IF kind = S_GENERAL
    THEN \/ C3_Departamento(r) \in {S_constructora, S_distribuidores}
         \/ C3_Departamento(r) = S_sucursal /\ C3_TipoDePago(r) \in C3_SucursalPagos
    ELSE IF kind = S_CONSTRUCTORA THEN C3_Departamento(r) = S_constructora
    ELSE IF kind = S_DISTRIBUIDORES
    THEN C3_Departamento(r) = S_distribuidores /\ C3_TipoDePago(r) = S_pago
    ELSE C3_Departamento(r) = S_sucursal /\ C3_TipoDePago(r) \in C3_SucursalPagos

C3_Slots(kind) == IF kind = S_SUCURSALES THEN 6 ELSE 9

\* the (index label, slot) pairs a report of this kind over [ini, fin] has
\* to give a line for
C3_Expected(kind, ini, fin) ==
    {<<DfRows[k].idx, i>> : <<k, i>> \in
        {<<k, i>> \in (1..Len(DfRows)) \X (1..C3_Slots(kind)) :
            /\ DfRows[k].cells[K_num_a].t = "num"
            /\ ini <= DfRows[k].cells[K_num_a].n
            /\ DfRows[k].cells[K_num_a].n <= fin
            /\ C3_Selected(kind, DfRows[k])
            /\ ~C1_Rejected(C1_Resolved(DfRows[k], i))}}

\* the request names a report kind, in some letter case, and nothing else
\* is wrong with it
C3_KindRequested ==
    /\ resp # Idle
    /\ req.missing = {}
    /\ loaded.raised = "none"
    /\ IntRaises(req.fecha_ini) = "none" /\ IntRaises(req.fecha_fin) = "none"
    /\ req.tipo.t = "str" /\ Upper(req.tipo.s) \in ReportKinds

\* C3: for a report kind given in any letter case, the report is exactly
\* the sales lines of the date-filtered rows that satisfy the predicate of
\* the kind, over slots 1..9 without extra fields for GENERAL, CONSTRUCTORA
\* and DISTRIBUIDORES and over slots 1..6 with the three extra fields for
\* SUCURSALES.
C3_ReportIsItsPredicate ==
    C3_KindRequested =>
        LET kind     == Upper(req.tipo.s)
            expected == C3_Expected(kind, IntOf(req.fecha_ini), IntOf(req.fecha_fin))
        IN  /\ resp.code = 200
            /\ {<<out.rows[k].src_idx, out.rows[k].src_slot>> : k \in 1..Len(out.rows)}
                   = expected
            /\ Len(out.rows) = Cardinality(expected)
            /\ \A k \in 1..Len(out.rows) :
                  /\ (kind = S_SUCURSALES) =>
                        {"comentario_cupon", "monto_cupon", "comentario"}
                            \subseteq DOMAIN out.rows[k]
                  /\ (kind # S_SUCURSALES) =>
                        {"comentario_cupon", "monto_cupon", "comentario"}
                            \cap DOMAIN out.rows[k] = {}

\* "sucursales" in lower case gave the lines of slots 1 and 6 of a row whose
\* slots 7 and 9 hold a quantity too
C3_Witness ==
    /\ Served200
    /\ req.tipo = Str(Lower(S_SUCURSALES))
    /\ Len(out.rows) = 2
    /\ out.rows[2].src_slot = 6
    /\ ~C1_Rejected(C1_Resolved(DfRows[1], 7))

\* C4: every row that satisfies the predicate of CONSTRUCTORA, of
\* DISTRIBUIDORES or of SUCURSALES satisfies the predicate of GENERAL.
C4_GeneralCoversTheOthers ==
    (resp # Idle /\ loaded.raised = "none") =>
        \A k \in 1..Len(DfRows) :
            (\/ MaskConstructora(DfRows[k])
             \/ MaskDistribuidores(DfRows[k])
             \/ MaskSucursales(DfRows[k])) => MaskGeneral(DfRows[k])

\* a row of department distribuidores paid "pago" was reported by
\* DISTRIBUIDORES
C4_Witness ==
    /\ Served200
    /\ Upper(req.tipo.s) = S_DISTRIBUIDORES
    /\ Len(out.rows) > 0
    /\ MaskDistribuidores(DfRows[1]) /\ MaskGeneral(DfRows[1])

-----------------------------------------------------------------------------
(* The sheets explored *)

\* quantities of the nine slots: blank but for at most n slots
QtyFilled == {Num(0), Num(-1), Num(2), Str(<<"3">>), Str(<<"x">>)}

QtyPatterns(n) ==
    {[i \in 1..9 |-> IF i \in S THEN f[i] ELSE Blank] :
        <<S, f>> \in UNION {{<<S1, f1>> : f1 \in [S1 -> QtyFilled]} :
                        S1 \in {S2 \in SUBSET (1..9) : Cardinality(S2) <= n}}}

-----------------------------------------------------------------------------
(* Specification of normalize_items alone: the frame read from a sheet of  *)
(* one record is normalised with some slot count and extras flag.          *)

InitNormalize ==
    /\ sheet \in {[found |-> TRUE,
                   records |-> <<SheetRecord(layout, Num(1), Str(T_Sucursal),
                                             Str(T_Pago_Total), qty)>>] :
                     layout \in 1..3, qty \in QtyPatterns(MaxPopulated)}
    /\ loaded = read_base(sheet)
    /\ req = [done |-> FALSE, items |-> 0, include_extras |-> FALSE]
    /\ out = Idle
    /\ dest = Idle /\ resp = Idle /\ df_fechas = Idle /\ sg = Idle /\ hdr = Idle

CallNormalizeItems(items, include_extras) ==
    /\ ~req.done
    /\ req' = [done |-> TRUE, items |-> items, include_extras |-> include_extras]
    /\ out' = normalize_items(loaded.frame.rows, items, include_extras)
    /\ UNCHANGED <<sheet, loaded, dest, resp, df_fechas, sg, hdr>>

NextNormalize ==
    \E items \in {6, 9}, include_extras \in BOOLEAN :
        CallNormalizeItems(items, include_extras)

SpecNormalize == InitNormalize /\ [][NextNormalize]_vars

\* C1: a slot whose resolved quantity does not parse as a number or is <= 0
\* yields no sales line; every sales line has cantidad > 0; a row whose
\* slots are all empty or zero yields no sales line.
C1_OnlyPositiveQuantities ==
    req.done =>
        /\ \A k \in 1..Len(out.rows) :
              out.rows[k].cantidad.t = "num" /\ out.rows[k].cantidad.n > 0
        /\ \A j \in 1..Len(DfRows), i \in 1..req.items :
              C1_Rejected(C1_Resolved(DfRows[j], i)) =>
                  ~\E k \in 1..Len(out.rows) :
                      /\ out.rows[k].src_idx = DfRows[j].idx
                      /\ out.rows[k].src_slot = i
        /\ \A j \in 1..Len(DfRows) :
              (\A i \in 1..9 : C1_Resolved(DfRows[j], i) \in {Blank, Num(0)}) =>
                  ~\E k \in 1..Len(out.rows) : out.rows[k].src_idx = DfRows[j].idx

\* a row with a zero quantity and a positive one, of which only the positive
\* one gave a line
C1_Witness ==
    /\ req.done
    /\ \E j, p \in 1..req.items :
          /\ C1_Resolved(DfRows[1], j) = Num(0)
          /\ C1_Resolved(DfRows[1], p) = Num(2)
    /\ Len(out.rows) = 1
    /\ out.rows[1].cantidad = Num(2)

\* the value of column precio_final_<i> of the row a line comes from
C10_PriceOfSlot(line, i) ==
    safe_get(RowOf(line.src_idx).cells, <<K_precio_final \o IntToText(i)>>)

\* C10 as amended: every sales line of slot i, slot 7 included, carries the
\* row's value under precio_final_<i>.
C10_PriceOfOwnSlot ==
    req.done =>
        \A k \in 1..Len(out.rows) :
            out.rows[k].precio_final = C10_PriceOfSlot(out.rows[k], out.rows[k].src_slot)

\* C10 as stated: the line of slot 7 carries precio_final_6, every other
\* line the price of its own slot.
C10_Slot7ReadsSlot6 ==
    req.done =>
        \A k \in 1..Len(out.rows) :
            out.rows[k].precio_final =
                C10_PriceOfSlot(out.rows[k],
                                IF out.rows[k].src_slot = 7 THEN 6 ELSE out.rows[k].src_slot)

\* a line was emitted for slot 7 of a row whose precio_final_6 and
\* precio_final_7 differ
C10_Witness ==
    /\ req.done
    /\ \E k \in 1..Len(out.rows) :
          /\ out.rows[k].src_slot = 7
          /\ C10_PriceOfSlot(out.rows[k], 6) # C10_PriceOfSlot(out.rows[k], 7)

-----------------------------------------------------------------------------
(* Specification of the column normaliser alone: a raw header is          *)
(* normalised, and the result is normalised again (a sheet whose headers  *)
(* were already normalised is read back).                                  *)

HeaderAlphabet == {" ", "\t", ".", "-", "#", "(", "/", "Á", "a"}

RECURSIVE StringsUpTo(_, _)
StringsUpTo(alphabet, n) ==
    IF n = 0 THEN {<<>>}
    ELSE LET shorter == StringsUpTo(alphabet, n - 1)
         IN  shorter \cup {Append(s, c) : s \in shorter, c \in alphabet}

InitHeader ==
    /\ hdr \in {[raw |-> h, cur |-> h, passes |-> 0] :
                   h \in StringsUpTo(HeaderAlphabet, MaxHeaderLen)}
    /\ sheet = Idle /\ loaded = Idle /\ dest = Idle /\ req = Idle /\ resp = Idle
    /\ df_fechas = Idle /\ out = Idle /\ sg = Idle

\* the first pass over a raw header
RenameColumn ==
    /\ hdr.passes = 0
    /\ hdr' = [hdr EXCEPT !.cur = NormalizeColumn(hdr.cur), !.passes = 1]
    /\ UNCHANGED <<sheet, loaded, dest, req, resp, df_fechas, out, sg>>

\* the normaliser applied to a header that is already its output
RenameColumnAgain ==
    /\ hdr.passes = 1
    /\ hdr' = [raw |-> hdr.cur, cur |-> NormalizeColumn(hdr.cur), passes |-> 2]
    /\ UNCHANGED <<sheet, loaded, dest, req, resp, df_fechas, out, sg>>

NextHeader == RenameColumn \/ RenameColumnAgain

SpecHeader == InitHeader /\ [][NextHeader]_vars

\* C8: for every raw header h, normalising the normalised header returns it
\* unchanged: normalize(normalize(h)) = normalize(h).
C8_NormalizeIdempotent ==
    hdr.passes = 2 => hdr.cur = hdr.raw

-----------------------------------------------------------------------------
(* Specification of safe_get alone: a row over some of two alias columns  *)
(* and a list of keys, one of which is never a column.                     *)

SgColumns == {CantUnder(1), CantPlain(1)}
SgKeys    == SgColumns \cup {K_cant \o <<"_", "_", "1">>}
SgValues  == {Str(<<>>), None, NaN, Num(2), Str(<<"x">>)}

SgRows == UNION {[cols -> SgValues] : cols \in SUBSET SgColumns}

InitSafeGet ==
    /\ sg \in {[row |-> r, keys |-> k, done |-> FALSE, ret |-> None] :
                  r \in SgRows, k \in SeqsUpTo(SgKeys, MaxKeys)}
    /\ sheet = Idle /\ loaded = Idle /\ dest = Idle /\ req = Idle /\ resp = Idle
    /\ df_fechas = Idle /\ out = Idle /\ hdr = Idle

CallSafeGet ==
    /\ ~sg.done
    /\ sg' = [sg EXCEPT !.done = TRUE, !.ret = safe_get(sg.row, sg.keys)]
    /\ UNCHANGED <<sheet, loaded, dest, req, resp, df_fechas, out, hdr>>

NextSafeGet == CallSafeGet

SpecSafeGet == InitSafeGet /\ [][NextSafeGet]_vars

\* the missing-value markers the claim names: empty string, null and NaN
C9_Missing(v) == v = Str(<<>>) \/ v = None \/ v = NaN

C9_Qualifies(row, key) == key \in DOMAIN row /\ ~C9_Missing(row[key])

\* C9: safe_get returns the value of the first alias, in the given order,
\* that is a column of the row and holds no missing-value marker (empty
\* string, null and NaN all count as missing), and None when no alias
\* qualifies; an earlier alias holding '' is passed over for a later alias
\* holding a real value.
C9_FirstPresentAlias ==
    sg.done =>
        IF \E i \in 1..Len(sg.keys) : C9_Qualifies(sg.row, sg.keys[i])
        THEN LET first == CHOOSE i \in 1..Len(sg.keys) :
                              /\ C9_Qualifies(sg.row, sg.keys[i])
                              /\ \A j \in 1..(i - 1) : ~C9_Qualifies(sg.row, sg.keys[j])
             IN  sg.ret = sg.row[sg.keys[first]]
        ELSE sg.ret = None

====
